---------------------------- MODULE Spec2Model ----------------------------
(***************************************************************************)
(* A model of package toolkit (src/tools.go): the multipart upload         *)
(* pipeline (UploadFiles, UploadOneFile, CreateDirIfNotExist), the JSON    *)
(* request decoder (ReadJSON) and the JSON response writer (WriteJSON).    *)
(*                                                                         *)
(* Strings whose characters matter (file names, MIME types, alphabets) are *)
(* sequences of one-character strings; file contents are described by a    *)
(* record [kind, size] whose bytes are given by ByteAt.                    *)
(***************************************************************************)
EXTENDS Integers, Sequences, FiniteSets, TLC

VARIABLES
    t,              \* the Tools value (the receiver of every method)
    pc,             \* position of the upload call: "idle", "parts", "done"
    api,            \* the method called: "UploadFiles" or "UploadOneFile"
    req,            \* the *http.Request of the upload call
    rename,         \* the variadic rename argument as given by the caller
    renameFile,     \* the local renameFile
    idx,            \* index of the next file part of the range loops
    uploadedFiles,  \* the local uploadedFiles of UploadFiles
    ret,            \* what the called method returned
    dir,            \* the destination directory on the file system
    disk,           \* the files under the destination directory
    openIn,         \* input handles (multipart.File) currently open
    openOut,        \* output handles (*os.File) currently open
    log,            \* the file-system and request operations performed, in order
    jbody,          \* the request body handed to ReadJSON
    jret,           \* what ReadJSON returned
    w,              \* the http.ResponseWriter handed to WriteJSON
    wcall,          \* the arguments of the WriteJSON call
    wret,           \* what WriteJSON returned
    rs,             \* the RandomString call: its arguments and its outcome
    sl,             \* the Slugify call: its argument and its outcome
    cfile,          \* the file two concurrent uploads write under one name
    cproc           \* the position of each of the two concurrent uploads

vars == <<t, pc, api, req, rename, renameFile, idx, uploadedFiles, ret, dir,
          disk, openIn, openOut, log, jbody, jret, w, wcall, wret, rs, sl,
          cfile, cproc>>

uploadVars == <<pc, api, req, rename, renameFile, idx, uploadedFiles, ret, dir,
                disk, openIn, openOut, log>>
jsonVars == <<jbody, jret>>
writeVars == <<w, wcall, wret>>
stringVars == <<rs, sl>>
concVars == <<cfile, cproc>>

-----------------------------------------------------------------------------
(* Bounds of the model. *)

\* largest number of file parts in one multipart body
MaxParts == 2

\* largest number of units in a JSON request body
MaxBodyLen == 4

\* largest length asked of RandomString
MaxStringLen == 2

\* largest number of runes of an input of Slugify
MaxSlugLen == 4

\* largest number of chunks of a file uploaded concurrently
MaxChunks == 2

-----------------------------------------------------------------------------
(* Program constants. *)

\* buff := make([]byte, 512)
SniffLen == 512

\* t.MaxFileSize = 1024 * 1024 * 1024
DefaultMaxFileSize == 1073741824

\* maxBytes := 1024 * 1024
DefaultMaxJSONSize == 1048576

\* t.RandomString(25)
RandomNameLen == 25

\* mime/multipart.ReadForm keeps 10 MiB for the non-file parts on top of maxMemory
NonFileReserve == 10485760

randomStringSource ==
    <<"a", "b", "c", "d", "e", "f", "g", "h", "i", "j", "k", "l", "m", "n", "o",
      "p", "q", "r", "s", "t", "u", "v", "w", "y", "z", "A", "B", "C", "D", "E",
      "F", "G", "H", "I", "J", "K", "L", "M", "N", "O", "P", "Q", "R", "S", "T",
      "U", "V", "W", "X", "Y", "Z">>

numbers ==
    <<"0", "1", "2", "3", "4", "5", "6", "7", "8", "9">>

specialChars ==
    <<"_", "-", "!", "@", "#", "$", "%", "^", "&", "*", "(", ")">>

WithAll == randomStringSource \o numbers \o specialChars

-----------------------------------------------------------------------------
(* Helpers on sequences. *)

Min(a, b) == IF a < b THEN a ELSE b

Range(s) == {s[i] : i \in 1..Len(s)}

SeqsUpTo(S, n) == UNION {[1..k -> S] : k \in 0..n}

-----------------------------------------------------------------------------
(* RandomString: s[i] = r[x % y], one draw x per position.  xs[i] is the   *)
(* value drawn for position i.                                             *)

RandomString(n, source, xs) ==
    [i \in 1..n |-> source[(xs[i] % Len(source)) + 1]]

\* the draws the upload model samples (one value repeated over the positions)
SampleDraws == {1, 2}

\* the options of the package, and two a caller defines: each returns a
\* piece of the alphabet
DigitsOnly == numbers

CharactersOnly == randomStringSource

WithSpecialChars == specialChars

\* func() string { return "x" }
CallerOneChar == <<"x">>

\* func() string { return "" }
CallerNoChar == <<>>

\* the opts arguments of the model
OptionLists ==
    { <<>>,
      <<DigitsOnly>>,
      <<CharactersOnly>>,
      <<WithSpecialChars>>,
      <<WithAll>>,
      <<DigitsOnly, WithSpecialChars>>,
      <<CharactersOnly, DigitsOnly>>,
      <<CallerOneChar>>,
      <<CallerNoChar>>,
      <<CallerOneChar, CallerOneChar>>,
      <<CallerOneChar, CallerOneChar, CallerOneChar>> }

\* source: WithAll() when no option is given, else the options' strings
\* one after the other
Source(opts) ==
    LET RECURSIVE Cat(_)
        Cat(k) == IF k = 0 THEN <<>> ELSE Cat(k - 1) \o opts[k]
    IN  IF Len(opts) = 0 THEN WithAll ELSE Cat(Len(opts))

IsPrime(p) ==
    /\ p >= 2
    /\ \A d \in 2..(p - 1) : d * d > p \/ p % d # 0

RECURSIVE Pow2(_)
Pow2(k) == IF k = 0 THEN 1 ELSE 2 * Pow2(k - 1)

RECURSIVE GCD(_, _)
GCD(a, b) == IF b = 0 THEN a ELSE GCD(b, a % b)

\* rand.Prime(rand.Reader, bits): an error and no prime when bits < 2, else
\* a prime of exactly bits bits whose two top bits are set.  The set is
\* computed for the sizes whose primes can be listed.
Primes(bits) ==
    IF bits < 2 THEN {}
    ELSE {p \in (3 * Pow2(bits - 2))..(Pow2(bits) - 1) : IsPrime(p)}

\* the values x % y can take, for x = p.Uint64() and y = bits = len(r):
\*   bits <= 12   the residues of the primes of that size, listed;
\*   bits <= 64   p.Uint64() is p, a prime larger than y, so the residue is
\*                coprime to y (and every coprime class holds such a prime);
\*   bits > 64    p.Uint64() keeps the low 64 bits of p only, and every
\*                residue is the residue of the low bits of some prime.
PrimeDraws(bits) ==
    IF bits <= 12 THEN {p % bits : p \in Primes(bits)}
    ELSE IF bits <= 64 THEN {i \in 0..(bits - 1) : GCD(i, bits) = 1}
    ELSE 0..(bits - 1)

\* the draws of each alphabet of the model, computed once
Draws ==
    [len \in {Len(Source(opts)) : opts \in OptionLists} |-> PrimeDraws(len)]

NoRandomString == [state |-> "none", n |-> 0, opts |-> <<>>, s |-> <<>>]

\* a caller invokes RandomString(n, opts...): with an alphabet of fewer than
\* two runes rand.Prime returns a nil prime and p.Uint64() panics in the
\* first iteration; with n = 0 the loop body never runs
RandomStringCall ==
    /\ rs.state = "ready"
    /\ \E source \in {Source(rs.opts)} :
        IF rs.n > 0 /\ Draws[Len(source)] = {}
        THEN rs' = [rs EXCEPT !.state = "panicked"]
        ELSE \E xs \in [1..rs.n -> Draws[Len(source)]] :
                rs' = [rs EXCEPT !.state = "returned",
                                 !.s = RandomString(rs.n, source, xs)]
    /\ UNCHANGED <<t, uploadVars, jsonVars, writeVars, sl, concVars>>

-----------------------------------------------------------------------------
(* strings.EqualFold on ASCII strings. *)

UpperLetters ==
    <<"A", "B", "C", "D", "E", "F", "G", "H", "I", "J", "K", "L", "M", "N", "O",
      "P", "Q", "R", "S", "T", "U", "V", "W", "X", "Y", "Z">>

LowerLetters ==
    <<"a", "b", "c", "d", "e", "f", "g", "h", "i", "j", "k", "l", "m", "n", "o",
      "p", "q", "r", "s", "t", "u", "v", "w", "x", "y", "z">>

FoldChar(c) ==
    IF \E i \in 1..Len(UpperLetters) : UpperLetters[i] = c
    THEN LowerLetters[CHOOSE i \in 1..Len(UpperLetters) : UpperLetters[i] = c]
    ELSE c

EqualFold(a, b) ==
    /\ Len(a) = Len(b)
    /\ \A i \in 1..Len(a) : FoldChar(a[i]) = FoldChar(b[i])

-----------------------------------------------------------------------------
(* filepath.Ext: the suffix beginning at the final dot of the final path   *)
(* element, empty when there is none.                                      *)

Ext(name) ==
    LET dots == {i \in 1..Len(name) :
                    /\ name[i] = "."
                    /\ \A j \in i..Len(name) : name[j] # "/"}
    IN  IF dots = {} THEN <<>>
        ELSE LET d == CHOOSE i \in dots : \A j \in dots : j <= i
             IN  SubSeq(name, d, Len(name))

-----------------------------------------------------------------------------
(* File contents and http.DetectContentType.                               *)

MimePNG == <<"i", "m", "a", "g", "e", "/", "p", "n", "g">>

MimePNGUpper == <<"I", "M", "A", "G", "E", "/", "P", "N", "G">>

MimeOctet ==
    <<"a", "p", "p", "l", "i", "c", "a", "t", "i", "o", "n", "/", "o", "c", "t",
      "e", "t", "-", "s", "t", "r", "e", "a", "m">>

MimeText ==
    <<"t", "e", "x", "t", "/", "p", "l", "a", "i", "n", ";", " ", "c", "h", "a",
      "r", "s", "e", "t", "=", "u", "t", "f", "-", "8">>

\* the PNG signature \x89PNG\x0D\x0A\x1A\x0A
PNGSignature == <<137, 80, 78, 71, 13, 10, 26, 10>>

\* byte i (from 1) of a content: a PNG starts with the signature, a text is
\* made of the letter 'h', the rest of a PNG is binary data
ByteAt(c, i) ==
    IF c.kind = "png"
    THEN IF i <= Len(PNGSignature) THEN PNGSignature[i] ELSE 1
    ELSE 104

\* the bytes DetectContentType calls binary
IsBinaryByte(b) ==
    \/ b <= 8
    \/ b = 11
    \/ (14 <= b /\ b <= 26)
    \/ (28 <= b /\ b <= 31)

\* DetectContentType on a buffer (a function on 1..n): of its signatures the
\* model keeps the PNG one and the final text/binary decision
DetectContentType(data, n) ==
    LET m == Min(n, SniffLen)
    IN  IF /\ m >= Len(PNGSignature)
           /\ \A i \in 1..Len(PNGSignature) : data[i] = PNGSignature[i]
        THEN MimePNG
        ELSE IF \A i \in 1..m : ~IsBinaryByte(data[i])
             THEN MimeText
             ELSE MimeOctet

\* buff after infile.Read(buff): the first bytes of the part, the rest of
\* the 512 bytes still zero
ReadBuff(c) ==
    [i \in 1..SniffLen |-> IF i <= c.size THEN ByteAt(c, i) ELSE 0]

\* fileType := http.DetectContentType(buff)
SniffedType(c) == DetectContentType(ReadBuff(c), SniffLen)

\* the type sniffed from the bytes of the part alone, buff[:n]
TypeOfLeadingBytes(c) ==
    DetectContentType([i \in 1..Min(c.size, SniffLen) |-> ByteAt(c, i)],
                      Min(c.size, SniffLen))

\* the allow-list check of UploadFiles
Allowed(allowedTypes, fileType) ==
    IF Len(allowedTypes) > 0
    THEN \E i \in 1..Len(allowedTypes) : EqualFold(fileType, allowedTypes[i])
    ELSE TRUE


-----------------------------------------------------------------------------
(* The inputs of the upload model.                                         *)

Contents ==
    { [kind |-> "png",  size |-> 20],
      [kind |-> "text", size |-> 5],
      [kind |-> "text", size |-> 600],
      [kind |-> "text", size |-> 0] }

\* the *multipart.FileHeader values of the model: the submitted file name
\* and the part's content
FileHeaders ==
    { [Filename |-> <<"a", ".", "b", ".", "t">>, content |-> [kind |-> "png",  size |-> 20]],
      [Filename |-> <<"a", ".", "b", ".", "t">>, content |-> [kind |-> "text", size |-> 5]],
      [Filename |-> <<"b">>,                     content |-> [kind |-> "text", size |-> 600]],
      [Filename |-> <<"b">>,                     content |-> [kind |-> "png",  size |-> 20]],
      [Filename |-> <<"b">>,                     content |-> [kind |-> "text", size |-> 0]] }

\* the sniffed type of each content of the model, computed once
SniffedTypes == [c \in Contents |-> SniffedType(c)]

\* a request: whether its body parses as multipart/form-data, the bytes of
\* its non-file parts, and its file parts in the order the range loops of
\* UploadFiles visit them
Requests ==
    { [wellFormed |-> TRUE, valueBytes |-> 0, parts |-> ps] :
        ps \in SeqsUpTo(FileHeaders, MaxParts) }
    \cup
    { [wellFormed |-> FALSE, valueBytes |-> 0, parts |-> <<>>],
      [wellFormed |-> TRUE, valueBytes |-> NonFileReserve + 101, parts |-> <<>>] }

AllowLists ==
    { <<>>, <<MimePNGUpper>>, <<MimeOctet>>, <<MimeText, MimePNG>> }

\* what the environment does to the processing of one part
Fates == {"ok", "openFail", "seekFail", "createFail", "copyFail"}

NoReturn == [files |-> <<>>, file |-> <<>>, err |-> "nil", panicked |-> FALSE]

\* the bytes of the request body: the file parts and the other parts
BodyBytes(r) ==
    LET RECURSIVE Sum(_)
        Sum(k) == IF k = 0 THEN 0 ELSE r.parts[k].content.size + Sum(k - 1)
    IN  r.valueBytes + Sum(Len(r.parts))

-----------------------------------------------------------------------------
(* The file system.                                                        *)

\* a file of the destination directory: the content it is written from and
\* the number of its bytes written so far
Put(d, name, file) ==
    [n \in DOMAIN d \cup {name} |-> IF n = name THEN file ELSE d[n]]

\* CreateDirIfNotExist: MkdirAll only when Stat reports fs.ErrNotExist; any
\* other Stat outcome (the path exists, as a directory or not, or cannot be
\* inspected) returns nil.  mkdirOK: whether MkdirAll succeeds.
CreateDirIfNotExist(d, mkdirOK) ==
    IF d = "absent"
    THEN IF mkdirOK THEN [err |-> "nil", dir |-> "dir"]
                    ELSE [err |-> "mkdir error", dir |-> d]
    ELSE [err |-> "nil", dir |-> d]

\* r.ParseMultipartForm(maxMemory): maxMemory bounds what is kept in memory,
\* file parts beyond it go to temporary files; only the non-file parts are
\* bounded (by maxMemory plus 10 MiB)
ParseMultipartForm(r, maxMemory) ==
    IF ~r.wellFormed THEN "parse error"
    ELSE IF r.valueBytes > maxMemory + NonFileReserve
         THEN "multipart: message too large"
         ELSE "nil"

-----------------------------------------------------------------------------
(* UploadFiles.                                                            *)

\* NewFileName of a part
NewFileName(hdr, renameFlag, x) ==
    IF renameFlag
    THEN RandomString(RandomNameLen, WithAll, [i \in 1..RandomNameLen |-> x])
            \o Ext(hdr.Filename)
    ELSE hdr.Filename

\* Descriptor without the assignment of FileSize
DescriptorNoSize(name, hdr, fileSize) ==
    [NewFileName      |-> name,
     OriginalFileName |-> hdr.Filename,
     FileSize         |-> 0]

\* the UploadedFile of a persisted part; fileSize is what io.Copy returned
Descriptor(name, hdr, fileSize) ==
    [NewFileName      |-> name,
     OriginalFileName |-> hdr.Filename,
     FileSize         |-> fileSize]

\* what a failing closure hands back as its first result
ClosureFailure(files) == <<>>

\* the closure of UploadFiles run on one part: the batch and error it
\* returns, what it did to the file system, and the handles it leaves open:
\* inp, the input handles (infile is closed by the deferred infile.Close()),
\* out, the output handles (the deferred outfile.Close() was bound to the nil
\* outfile of the declaration, so the file os.Create returned stays open)
ProcessPart(files, hdr, i, allowedTypes, renameFlag, d, dsk, fate, x) ==
    LET c       == hdr.content
        name    == NewFileName(hdr, renameFlag, x)
        opened  == <<[op |-> "open", part |-> i]>>
        created == opened \o <<[op |-> "create", part |-> i]>>
        fail(e, dsk2, out, ops) ==
            [files |-> ClosureFailure(files), err |-> e, disk |-> dsk2,
             inp |-> 0, out |-> out, ops |-> ops]
    IN  IF fate = "openFail" THEN fail("open error", dsk, 0, <<>>)
        ELSE IF c.size = 0 THEN fail("EOF", dsk, 0, opened)
        ELSE IF ~Allowed(allowedTypes, SniffedTypes[c])
             THEN fail("the uploaded file type is not permitted", dsk, 0, opened)
        ELSE IF fate = "seekFail" THEN fail("seek error", dsk, 0, opened)
        ELSE IF d # "dir" \/ fate = "createFail"
             THEN fail("create error", dsk, 0, opened)
        ELSE IF fate = "copyFail"
             THEN fail("copy error",
                       Put(dsk, name, [content |-> c, written |-> c.size \div 2]),
                       1, created)
        ELSE [files |-> Append(files, Descriptor(name, hdr, c.size)),
              err   |-> "nil",
              disk  |-> Put(dsk, name, [content |-> c, written |-> c.size]),
              inp   |-> 0,
              out   |-> 1,
              ops   |-> created]

\* what the called method returns, given what UploadFiles returns
Return(method, files, e) ==
    IF method = "UploadFiles"
    THEN [files |-> files, file |-> <<>>, err |-> e, panicked |-> FALSE]
    ELSE IF e # "nil"
         THEN [files |-> <<>>, file |-> <<>>, err |-> e, panicked |-> FALSE]
         ELSE IF Len(files) = 0
              THEN [files |-> <<>>, file |-> <<>>, err |-> "nil", panicked |-> TRUE]
              ELSE [files |-> <<>>, file |-> <<files[1]>>, err |-> "nil",
                    panicked |-> FALSE]

\* RenameFlag with the default false
RenameFlagDefaultFalse(args) == IF Len(args) > 0 THEN args[1] ELSE FALSE

\* renameFile := true; if len(rename) > 0 { renameFile = rename[0] }
RenameFlag(args) == IF Len(args) > 0 THEN args[1] ELSE TRUE

\* if t.MaxFileSize == 0 { t.MaxFileSize = 1024 * 1024 * 1024 }
WithMaxFileSize(tools) ==
    IF tools.MaxFileSize = 0
    THEN [tools EXCEPT !.MaxFileSize = DefaultMaxFileSize]
    ELSE tools

\* the call, up to the range loops: the defaults, the directory, the parse
UploadFilesCall(method, r, args, mkdirOK) ==
    LET t2  == WithMaxFileSize(t)
        cd  == CreateDirIfNotExist(dir, mkdirOK)
        perr == ParseMultipartForm(r, t2.MaxFileSize)
        statOps == IF dir = "absent"
                   THEN <<[op |-> "stat", part |-> 0], [op |-> "mkdir", part |-> 0]>>
                   ELSE <<[op |-> "stat", part |-> 0]>>
    IN  /\ pc = "idle"
        /\ api' = method
        /\ req' = r
        /\ rename' = args
        /\ renameFile' = RenameFlag(args)
        /\ t' = t2
        /\ dir' = cd.dir
        /\ uploadedFiles' = <<>>
        /\ idx' = 1
        /\ IF cd.err # "nil"
           THEN /\ log' = statOps
                /\ pc' = "done"
                /\ ret' = Return(method, <<>>, cd.err)
           ELSE IF perr # "nil"
           THEN /\ log' = statOps \o <<[op |-> "parse", part |-> 0]>>
                /\ pc' = "done"
                /\ ret' = Return(method, <<>>, "the uploaded file is too big")
           ELSE /\ log' = statOps \o <<[op |-> "parse", part |-> 0]>>
                /\ pc' = "parts"
                /\ ret' = NoReturn
        /\ UNCHANGED <<disk, openIn, openOut, jsonVars, writeVars, stringVars, concVars>>

\* one iteration of the range loops: the closure on the next part, and the
\* return when it failed
UploadPart(fate, x) ==
    /\ pc = "parts"
    /\ idx <= Len(req.parts)
    /\ \E res \in {ProcessPart(uploadedFiles, req.parts[idx], idx,
                               t.AllowedFileTypes, renameFile, dir, disk, fate, x)} :
           /\ uploadedFiles' = res.files
           /\ disk' = res.disk
           /\ openIn' = openIn + res.inp
           /\ openOut' = openOut + res.out
           /\ log' = log \o res.ops
           /\ IF res.err # "nil"
              THEN /\ pc' = "done"
                   /\ ret' = Return(api, res.files, res.err)
                   /\ idx' = idx
              ELSE /\ idx' = idx + 1
                   /\ UNCHANGED <<pc, ret>>
    /\ UNCHANGED <<t, api, req, rename, renameFile, dir, jsonVars, writeVars,
                   stringVars, concVars>>

\* return uploadedFiles, nil
UploadFilesReturn ==
    /\ pc = "parts"
    /\ idx > Len(req.parts)
    /\ pc' = "done"
    /\ ret' = Return(api, uploadedFiles, "nil")
    /\ UNCHANGED <<t, api, req, rename, renameFile, idx, uploadedFiles, dir, disk,
                   openIn, openOut, log, jsonVars, writeVars, stringVars, concVars>>

-----------------------------------------------------------------------------
(* ReadJSON.                                                               *)
(*                                                                         *)
(* A body is a sequence of units, each standing for the bytes of one       *)
(* lexical piece of a JSON text; the destination is the struct             *)
(* {Foo string `json:"foo"`} of the tests:                                 *)
(*   "{" "}"  the braces of an object                                      *)
(*   "k"      a member "foo":"bar"   (declared key, value of its type)     *)
(*   "n"      a member "foo":1       (declared key, value of another type) *)
(*   "u"      a member "foooo":"1"   (key the destination does not declare)*)
(*   "s"      a string, as a value of its own                              *)
(*   " "      white space                                                  *)
(* The size limit counts units.  Character offsets of messages are left    *)
(* out.                                                                    *)

Units == {"{", "}", "k", "n", "u", "s", " "}

Members == {"k", "n", "u"}

NoError == [kind |-> "nil", field |-> ""]

Error(kind, field) == [kind |-> kind, field |-> field]

\* the key of a member
KeyOf(m) == IF m = "u" THEN "foooo" ELSE "foo"

\* Decoder.readValue from the start of buf, the bytes not yet consumed that
\* the size-limited reader delivers; tail is what the reader returns after
\* them: "EOF", or "TooLarge" when the body goes on beyond the limit.
\* A value ends at the closing brace of an object; a string ends only at
\* the byte that follows it, or at the end of the input.
RECURSIVE ScanValue(_, _, _, _, _)
ScanValue(buf, tail, i, st, members) ==
    IF i > Len(buf)
    THEN IF tail = "EOF"
         THEN IF st = "str"
              THEN [err |-> NoError, n |-> Len(buf), type |-> "string", members |-> <<>>]
              ELSE IF \E j \in 1..Len(buf) : buf[j] # " "
                   THEN [err |-> Error("UnexpectedEOF", ""), n |-> 0,
                         type |-> "none", members |-> <<>>]
                   ELSE [err |-> Error("EOF", ""), n |-> 0,
                         type |-> "none", members |-> <<>>]
         ELSE [err |-> Error("TooLarge", ""), n |-> 0, type |-> "none", members |-> <<>>]
    ELSE IF st = "str"
         THEN [err |-> NoError, n |-> i - 1, type |-> "string", members |-> <<>>]
    ELSE IF buf[i] = " "
         THEN ScanValue(buf, tail, i + 1, st, members)
    ELSE IF st = "begin" /\ buf[i] = "{"
         THEN ScanValue(buf, tail, i + 1, "obj", members)
    ELSE IF st = "begin" /\ buf[i] = "s"
         THEN ScanValue(buf, tail, i + 1, "str", members)
    ELSE IF st = "obj" /\ buf[i] \in Members
         THEN ScanValue(buf, tail, i + 1, "obj", Append(members, buf[i]))
    ELSE IF st = "obj" /\ buf[i] = "}"
         THEN [err |-> NoError, n |-> i, type |-> "object", members |-> members]
    ELSE [err |-> Error("SyntaxError", ""), n |-> 0, type |-> "none", members |-> <<>>]

\* decodeState.unmarshal of a scanned value into a struct that declares the
\* keys `declared` (their fields of type string): the first error saved
Unmarshal(val, declared, disallowUnknown) ==
    IF val.type = "string" THEN Error("UnmarshalTypeError", "")
    ELSE LET bad == {i \in 1..Len(val.members) :
                        \/ /\ KeyOf(val.members[i]) \in declared
                           /\ val.members[i] = "n"
                        \/ /\ KeyOf(val.members[i]) \notin declared
                           /\ disallowUnknown}
         IN  IF bad = {} THEN NoError
             ELSE LET i == CHOOSE i \in bad : \A j \in bad : i <= j
                  IN  IF KeyOf(val.members[i]) \in declared
                      THEN Error("UnmarshalTypeError", KeyOf(val.members[i]))
                      ELSE Error("unknown field", KeyOf(val.members[i]))

\* Decoder.Decode: the error and the number of bytes consumed
Decode(buf, tail, declared, disallowUnknown) ==
    LET val == ScanValue(buf, tail, 1, "begin", <<>>)
    IN  IF val.err # NoError
        THEN [err |-> val.err, n |-> 0]
        ELSE [err |-> Unmarshal(val, declared, disallowUnknown), n |-> val.n]

\* maxBytes of ReadJSON
MaxBytes(tools) ==
    IF tools.MaxJSONSize # 0 THEN tools.MaxJSONSize ELSE DefaultMaxJSONSize

\* the switch of ReadJSON on the error of the first Decode
ClassifyDecodeError(err) ==
    CASE err.kind = "SyntaxError"        -> Error("MalformedJSON", "")
      [] err.kind = "UnexpectedEOF"      -> Error("MalformedJSON", "")
      [] err.kind = "UnmarshalTypeError" -> Error("JSONTypeMismatch", err.field)
      [] err.kind = "EOF"                -> Error("EmptyBody", "")
      [] err.kind = "unknown field"      -> Error("UnknownJSONField", err.field)
      [] err.kind = "TooLarge"           -> Error("SizeExceeded", "")
      [] OTHER                           -> Error("DecodeError", "")

\* SingleValueCheck that takes any error of the second Decode for the end
\* of the input
SingleValueCheckAnyError(err) ==
    IF err = NoError THEN Error("MultipleJSONValues", "") ELSE NoError

\* err = dec.Decode(&struct{}{}); if err != io.EOF { ... }
SingleValueCheck(err) ==
    IF err.kind # "EOF" THEN Error("MultipleJSONValues", "") ELSE NoError

\* DisallowUnknown that never calls dec.DisallowUnknownFields
DisallowUnknownNever(tools) == FALSE

\* if !t.AllowUnknownFields { dec.DisallowUnknownFields() }
DisallowUnknown(tools) == ~tools.AllowUnknownFields

\* what the size-limited body delivers: the bytes up to the limit, and
\* then the end of input or the error of http.MaxBytesReader
Visible(tools, body) == SubSeq(body, 1, Min(Len(body), MaxBytes(tools)))

AfterVisible(tools, body) == IF Len(body) > MaxBytes(tools) THEN "TooLarge" ELSE "EOF"

\* err := dec.Decode(data), into the destination that declares the key "foo"
FirstDecode(tools, body) ==
    Decode(Visible(tools, body), AfterVisible(tools, body), {"foo"},
           DisallowUnknown(tools))

\* err = dec.Decode(&struct{}{}), on what the first Decode left
SecondDecode(tools, body, consumed) ==
    Decode(SubSeq(Visible(tools, body), consumed + 1, Len(Visible(tools, body))),
           AfterVisible(tools, body), {}, DisallowUnknown(tools))

\* ReadJSON on a body
ReadJSON(tools, body) ==
    LET first == FirstDecode(tools, body)
    IN  IF first.err # NoError
        THEN ClassifyDecodeError(first.err)
        ELSE SingleValueCheck(SecondDecode(tools, body, first.n).err)

NotCalled == [kind |-> "none", field |-> ""]

\* a handler calls ReadJSON on the request body
ReadJSONCall ==
    /\ jret = NotCalled
    /\ jret' = ReadJSON(t, jbody)
    /\ UNCHANGED <<t, jbody, uploadVars, writeVars, stringVars, concVars>>

-----------------------------------------------------------------------------
(* WriteJSON.                                                              *)
(*                                                                         *)
(* An http.Header is a function from keys to sequences of values.  The     *)
(* response writer keeps the header map, and what went out: the status     *)
(* (0 before WriteHeader), the header as it was when the status was        *)
(* written, and the body.                                                  *)

\* textproto.CanonicalMIMEHeaderKey on the keys of the model
CanonicalKey(key) ==
    CASE key = "content-type" -> "Content-Type"
      [] key = "FOO"          -> "Foo"
      [] OTHER                -> key

\* Header.Set
HeaderSet(h, key, value) == Put(h, CanonicalKey(key), <<value>>)

\* for key, value := range headers[0] { w.Header()[key] = value }
MergeHeaders(h, extra) ==
    [k \in DOMAIN h \cup DOMAIN extra |->
        IF k \in DOMAIN extra THEN extra[k] ELSE h[k]]

\* ResponseWriter.WriteHeader: the first call sends the status with the
\* header map as it is; later calls change nothing
WriteHeader(rw, status) ==
    IF rw.status = 0
    THEN [rw EXCEPT !.status = status, !.sent = rw.header]
    ELSE rw

\* ResponseWriter.Write: sends the status 200 first when none was written
Write(rw, bytes, writeOK) ==
    LET rw2 == WriteHeader(rw, 200)
    IN  IF writeOK
        THEN [w |-> [rw2 EXCEPT !.body = rw2.body \o bytes], err |-> "nil"]
        ELSE [w |-> rw2, err |-> "write error"]

\* json.Marshal of the payloads of the model
Marshal(data) ==
    IF data = "unsupported"
    THEN [out |-> <<>>, err |-> "json: unsupported type"]
    ELSE [out |-> <<data>>, err |-> "nil"]

\* ResponseHeader with Content-Type set before the caller's headers
ResponseHeaderCallerLast(h, headers) ==
    LET h2 == HeaderSet(h, "Content-Type", "application/json")
    IN  IF Len(headers) > 0 THEN MergeHeaders(h2, headers[1]) ELSE h2

\* the header map of the response: the caller's headers, then Content-Type
ResponseHeader(h, headers) ==
    HeaderSet(IF Len(headers) > 0 THEN MergeHeaders(h, headers[1]) ELSE h,
              "Content-Type", "application/json")

\* WriteJSON: the writer after the call and the error returned
WriteJSON(rw, status, data, headers, writeOK) ==
    IF Marshal(data).err # "nil"
    THEN [w |-> rw, err |-> Marshal(data).err]
    ELSE Write(WriteHeader([rw EXCEPT !.header = ResponseHeader(rw.header, headers)],
                           status),
               Marshal(data).out, writeOK)

\* the header maps a caller passes
CallerHeaders ==
    { [k \in {"Foo"} |-> <<"BAR">>],
      [k \in {"Foo"} |-> <<"BAR", "BAZ">>],
      [k \in {"Content-Type"} |-> <<"text/plain">>],
      [k \in {"Content-Type", "Foo"} |->
          IF k = "Foo" THEN <<"BAR">> ELSE <<"text/plain">>],
      [k \in {"content-type", "FOO"} |->
          IF k = "FOO" THEN <<"BAR">> ELSE <<"text/plain">>] }

\* the header maps of the writer before the call
WriterHeaders ==
    { <<>>,
      [k \in {"Foo"} |-> <<"OLD">>],
      [k \in {"Content-Type"} |-> <<"text/html">>],
      [k \in {"X-Pre", "Foo"} |-> <<"OLD">>] }

\* a handler calls WriteJSON
WriteJSONCall(status, data, headers, writeOK) ==
    /\ wret = "none"
    /\ wcall' = [status |-> status, data |-> data, headers |-> headers]
    /\ \E res \in {WriteJSON(w, status, data, headers, writeOK)} :
           /\ w' = res.w
           /\ wret' = res.err
    /\ UNCHANGED <<t, uploadVars, jsonVars, stringVars, concVars>>

-----------------------------------------------------------------------------
(* Slugify.                                                                *)
(*                                                                         *)
(* The input is a sequence of runes; "Eacute" and "eacute" stand for the   *)
(* runes U+00C9 and U+00E9, a letter outside ASCII and its lower case.     *)

SlugChars == {"a", "B", "7", "-", " ", "Eacute"}

\* strings.ToLower
ToLower(str) ==
    [i \in 1..Len(str) |->
        IF str[i] = "Eacute" THEN "eacute" ELSE FoldChar(str[i])]

\* the class [a-z\d] of the regular expression
IsSlugChar(c) == c \in Range(LowerLetters) \cup Range(numbers)

\* re.ReplaceAllString(str, "-") for re = [^a-z\d]+ : scanning from the
\* left, each match runs on as far as the runes stay outside the class and
\* is replaced by one "-"
ReplaceAllString(str) ==
    LET RECURSIVE Scan(_, _, _)
        Scan(i, inMatch, out) ==
            IF i > Len(str) THEN out
            ELSE IF IsSlugChar(str[i]) THEN Scan(i + 1, FALSE, Append(out, str[i]))
            ELSE IF inMatch THEN Scan(i + 1, TRUE, out)
            ELSE Scan(i + 1, TRUE, Append(out, "-"))
    IN  Scan(1, FALSE, <<>>)

\* Trim that removes nothing
TrimNothing(str, c) == str

\* strings.Trim(str, c) for a cutset of the one rune c
Trim(str, c) ==
    LET keep == {i \in 1..Len(str) : str[i] # c}
    IN  IF keep = {} THEN <<>>
        ELSE LET lo == CHOOSE i \in keep : \A j \in keep : i <= j
                 hi == CHOOSE i \in keep : \A j \in keep : j <= i
             IN  SubSeq(str, lo, hi)

Slugify(str) ==
    IF str = <<>>
    THEN [slug |-> <<>>, err |-> "empty string not permitted"]
    ELSE LET slug == Trim(ReplaceAllString(ToLower(str)), "-")
         IN  IF Len(slug) = 0
             THEN [slug |-> <<>>,
                   err  |-> "after removing characters, slug is zero length"]
             ELSE [slug |-> slug, err |-> "nil"]

NoSlug == [state |-> "none", s |-> <<>>, slug |-> <<>>, err |-> "nil"]

\* a caller invokes Slugify(s)
SlugifyCall ==
    /\ sl.state = "ready"
    /\ \E res \in {Slugify(sl.s)} :
        sl' = [sl EXCEPT !.state = "returned", !.slug = res.slug, !.err = res.err]
    /\ UNCHANGED <<t, uploadVars, jsonVars, writeVars, rs, concVars>>

-----------------------------------------------------------------------------
(* Two UploadFiles calls that run at the same time, each on a part with    *)
(* the same file name, the rename flag false, one destination directory:   *)
(* the steps of the two closures on the one path, from os.Create on.       *)
(*                                                                         *)
(* Each call holds its own descriptor of the file, with its own offset.    *)
(* A content is a number of chunks, a chunk being what one Write of        *)
(* io.Copy carries; the chunk k of the call p is [by |-> p, chunk |-> k],  *)
(* and ZeroChunk is a chunk of zero bytes (a hole left by a truncation).   *)

Uploaders == {1, 2}

ZeroChunk == [by |-> 0, chunk |-> 0]

IdleUploader == [pc |-> "none", len |-> 0, off |-> 0]

\* the content the call p uploads
ContentOf(p) == [k \in 1..cproc[p].len |-> [by |-> p, chunk |-> k]]

\* a write of chunk c at offset off: the file grows when the offset is at
\* or past its end, the gap reading as zeros
WriteAt(file, off, c) ==
    [k \in 1..(IF off + 1 > Len(file) THEN off + 1 ELSE Len(file)) |->
        IF k = off + 1 THEN c
        ELSE IF k <= Len(file) THEN file[k]
        ELSE ZeroChunk]

\* outfile, err = os.Create(path.Join(uploadDir, uploadedFile.NewFileName)):
\* the file is created or truncated
OsCreate(p) ==
    /\ cproc[p].pc = "create"
    /\ cfile' = <<>>
    /\ cproc' = [cproc EXCEPT ![p].pc = "copy"]
    /\ UNCHANGED <<t, uploadVars, jsonVars, writeVars, stringVars>>

\* one Write of io.Copy(outfile, infile)
CopyChunk(p) ==
    /\ cproc[p].pc = "copy"
    /\ cproc[p].off < cproc[p].len
    /\ cfile' = WriteAt(cfile, cproc[p].off,
                        [by |-> p, chunk |-> cproc[p].off + 1])
    /\ cproc' = [cproc EXCEPT ![p].off = @ + 1]
    /\ UNCHANGED <<t, uploadVars, jsonVars, writeVars, stringVars>>

\* io.Copy is at the end of infile: the closure and the call return
CopyReturn(p) ==
    /\ cproc[p].pc = "copy"
    /\ cproc[p].off = cproc[p].len
    /\ cproc' = [cproc EXCEPT ![p].pc = "done"]
    /\ UNCHANGED <<t, uploadVars, jsonVars, writeVars, stringVars, cfile>>

EmptyRequest == [wellFormed |-> TRUE, valueBytes |-> 0, parts |-> <<>>]

NoWriter == [header |-> <<>>, sent |-> <<>>, status |-> 0, body |-> <<>>]

NoWriteCall == [status |-> 0, data |-> "none", headers |-> <<>>]

IdleStrings ==
    /\ rs = NoRandomString
    /\ sl = NoSlug

IdleConcurrent ==
    /\ cfile = <<>>
    /\ cproc = [p \in Uploaders |-> IdleUploader]

Init ==
    /\ t \in [MaxFileSize : {0, 100}, AllowedFileTypes : AllowLists,
              MaxJSONSize : {0}, AllowUnknownFields : {FALSE}]
    /\ pc = "idle"
    /\ api = "UploadFiles"
    /\ req = EmptyRequest
    /\ rename = <<>>
    /\ renameFile = TRUE
    /\ idx = 1
    /\ uploadedFiles = <<>>
    /\ ret = NoReturn
    /\ dir \in {"absent", "dir", "file", "noaccess"}
    /\ disk = <<>>
    /\ openIn = 0
    /\ openOut = 0
    /\ log = <<>>
    /\ jbody = <<>>
    /\ jret = NotCalled
    /\ w = NoWriter
    /\ wcall = NoWriteCall
    /\ wret = "none"
    /\ IdleStrings
    /\ IdleConcurrent

\* a caller invokes UploadFiles or UploadOneFile
Call ==
    /\ pc = "idle"
    /\ \E method \in {"UploadFiles", "UploadOneFile"}, r \in Requests,
          args \in {<<>>, <<TRUE>>, <<FALSE>>}, mkdirOK \in BOOLEAN :
            UploadFilesCall(method, r, args, mkdirOK)

\* the range loops of UploadFiles advance by one part
Part ==
    /\ pc = "parts"
    /\ \E fate \in Fates, x \in SampleDraws : UploadPart(fate, x)

Next ==
    \/ Call
    \/ Part
    \/ UploadFilesReturn

Spec == Init /\ [][Next]_vars

IdleUpload ==
    /\ pc = "none"
    /\ api = "none"
    /\ req = EmptyRequest
    /\ rename = <<>>
    /\ renameFile = TRUE
    /\ idx = 1
    /\ uploadedFiles = <<>>
    /\ ret = NoReturn
    /\ dir = "dir"
    /\ disk = <<>>
    /\ openIn = 0
    /\ openOut = 0
    /\ log = <<>>

InitReadJSON ==
    /\ t \in [MaxFileSize : {0}, AllowedFileTypes : {<<>>},
              MaxJSONSize : {0, 1, 2, 3}, AllowUnknownFields : BOOLEAN]
    /\ jbody \in SeqsUpTo(Units, MaxBodyLen)
    /\ jret = NotCalled
    /\ IdleUpload
    /\ w = NoWriter
    /\ wcall = NoWriteCall
    /\ wret = "none"
    /\ IdleStrings
    /\ IdleConcurrent

NextReadJSON == ReadJSONCall

SpecReadJSON == InitReadJSON /\ [][NextReadJSON]_vars

InitWriteJSON ==
    /\ t = [MaxFileSize |-> 0, AllowedFileTypes |-> <<>>, MaxJSONSize |-> 0,
            AllowUnknownFields |-> FALSE]
    /\ w \in {[header |-> h, sent |-> <<>>, status |-> 0, body |-> <<>>] :
                h \in WriterHeaders}
    /\ wcall = NoWriteCall
    /\ wret = "none"
    /\ jbody = <<>>
    /\ jret = NotCalled
    /\ IdleUpload
    /\ IdleStrings
    /\ IdleConcurrent

NextWriteJSON ==
    \E status \in {200, 201, 400, 500}, data \in {"payload", "envelope", "unsupported"},
       headers \in {<<>>} \cup {<<h>> : h \in CallerHeaders}, writeOK \in BOOLEAN :
        WriteJSONCall(status, data, headers, writeOK)

SpecWriteJSON == InitWriteJSON /\ [][NextWriteJSON]_vars

ZeroTools ==
    [MaxFileSize |-> 0, AllowedFileTypes |-> <<>>, MaxJSONSize |-> 0,
     AllowUnknownFields |-> FALSE]

IdleJSON ==
    /\ jbody = <<>>
    /\ jret = NotCalled
    /\ w = NoWriter
    /\ wcall = NoWriteCall
    /\ wret = "none"

InitRandomString ==
    /\ t = ZeroTools
    /\ rs \in {[state |-> "ready", n |-> n, opts |-> opts, s |-> <<>>] :
                    n \in 0..MaxStringLen, opts \in OptionLists}
    /\ sl = NoSlug
    /\ IdleUpload
    /\ IdleJSON
    /\ IdleConcurrent

NextRandomString == RandomStringCall

SpecRandomString == InitRandomString /\ [][NextRandomString]_vars

InitSlugify ==
    /\ t = ZeroTools
    /\ sl \in {[state |-> "ready", s |-> str, slug |-> <<>>, err |-> "nil"] :
                    str \in SeqsUpTo(SlugChars, MaxSlugLen)}
    /\ rs = NoRandomString
    /\ IdleUpload
    /\ IdleJSON
    /\ IdleConcurrent

NextSlugify == SlugifyCall

SpecSlugify == InitSlugify /\ [][NextSlugify]_vars

InitConcurrent ==
    /\ t = ZeroTools
    /\ cfile = <<>>
    /\ cproc \in [Uploaders -> {[pc |-> "create", len |-> n, off |-> 0] :
                                    n \in 1..MaxChunks}]
    /\ IdleStrings
    /\ IdleUpload
    /\ IdleJSON

NextConcurrent ==
    \E p \in Uploaders :
        \/ OsCreate(p)
        \/ CopyChunk(p)
        \/ CopyReturn(p)

SpecConcurrent == InitConcurrent /\ [][NextConcurrent]_vars

-----------------------------------------------------------------------------
(* Properties of the upload pipeline.                                      *)

\* the errors a file part can fail with
PartErrors ==
    {"open error", "EOF", "the uploaded file type is not permitted",
     "seek error", "create error", "copy error"}

\* the call has returned because the part at idx failed
PartFailed == pc = "done" /\ ret.err \in PartErrors

\* C1: when UploadFiles fails on a part, it returns the error together with
\* the descriptors of the parts persisted before the failing part, in order.
C1_PartialBatchReturned ==
    (PartFailed /\ api = "UploadFiles") =>
        /\ Len(ret.files) = idx - 1
        /\ \A i \in 1..(idx - 1) :
            /\ ret.files[i].OriginalFileName = req.parts[i].Filename
            /\ ret.files[i].FileSize = req.parts[i].content.size

\* the file a descriptor names is on disk and completely written
Persisted(f) ==
    /\ f.NewFileName \in DOMAIN disk
    /\ disk[f.NewFileName].written = disk[f.NewFileName].content.size

\* C2 (as claimed, for the case it names: the rename flag off): every
\* descriptor of the returned batch names a file on disk that is completely
\* written and whose size is the descriptor's FileSize.
C2_EveryDescriptorMatchesDisk ==
    (pc = "done" /\ rename = <<FALSE>>) =>
        \A i \in 1..Len(ret.files) :
            /\ Persisted(ret.files[i])
            /\ disk[ret.files[i].NewFileName].written = ret.files[i].FileSize

\* the last descriptor of the batch that carries the name of descriptor i
LastWithName(files, i) ==
    CHOOSE j \in i..Len(files) :
        /\ files[j].NewFileName = files[i].NewFileName
        /\ \A k \in (j + 1)..Len(files) :
            files[k].NewFileName # files[i].NewFileName

\* C2 (amended): every descriptor of the returned batch names a file on disk
\* that is completely written, and the size on disk is the FileSize of the
\* last descriptor of the batch that carries that name.
C2_LastDescriptorMatchesDisk ==
    pc = "done" =>
        \A i \in 1..Len(ret.files) :
            /\ Persisted(ret.files[i])
            /\ disk[ret.files[i].NewFileName].written =
                   ret.files[LastWithName(ret.files, i)].FileSize

\* two parts of one returned batch were written under one name with
\* different sizes
C2_Witness ==
    /\ pc = "done"
    /\ Len(ret.files) = 2
    /\ ret.files[1].NewFileName = ret.files[2].NewFileName
    /\ ret.files[1].FileSize # ret.files[2].FileSize

\* part i got past the allow-list check
PassedTypeCheck(i) ==
    \/ i < idx
    \/ /\ i = idx
       /\ pc = "done"
       /\ ret.err \in {"seek error", "create error", "copy error"}

\* part i was opened and its leading bytes were read
ReachedTypeCheck(i) ==
    /\ [op |-> "open", part |-> i] \in Range(log)
    /\ req.parts[i].content.size > 0

\* C3: a part is accepted only if the type sniffed from its leading bytes
\* matches the allow-list (or the list is empty); otherwise the call fails
\* with the type error and no file is created for the part.
C3_AllowListOnLeadingBytes ==
    \A i \in 1..Len(req.parts) :
        LET ok == Allowed(t.AllowedFileTypes, TypeOfLeadingBytes(req.parts[i].content))
        IN  /\ PassedTypeCheck(i) => ok
            /\ (ReachedTypeCheck(i) /\ ~ok) =>
                /\ pc = "done"
                /\ ret.err = "the uploaded file type is not permitted"
                /\ [op |-> "create", part |-> i] \notin Range(log)

\* the request was parsed: the directory step did not fail
Parsed == pc = "done" /\ [op |-> "parse", part |-> 0] \in Range(log)

\* C4: a body larger than MaxFileSize fails with the too-big error before
\* any part is opened and with no file created, and the too-big error is
\* returned only for such bodies.
C4_TooBigIffOversize ==
    Parsed =>
        /\ BodyBytes(req) > t.MaxFileSize =>
            /\ ret.err = "the uploaded file is too big"
            /\ \A e \in Range(log) : e.op \notin {"open", "create"}
            /\ DOMAIN disk = {}
        /\ ret.err = "the uploaded file is too big" =>
            BodyBytes(req) > t.MaxFileSize

\* the name and original name of descriptor f are those of part hdr under
\* the rename argument of the call
NamedFor(f, hdr) ==
    /\ f.OriginalFileName = hdr.Filename
    /\ IF rename = <<>> \/ rename = <<TRUE>>
       THEN /\ Len(f.NewFileName) = RandomNameLen + Len(Ext(hdr.Filename))
            /\ \A j \in 1..RandomNameLen : f.NewFileName[j] \in Range(WithAll)
            /\ SubSeq(f.NewFileName, RandomNameLen + 1, Len(f.NewFileName))
                   = Ext(hdr.Filename)
       ELSE f.NewFileName = hdr.Filename

\* C5: with the rename flag true or omitted, NewFileName is 25 characters of
\* the alphabet followed by the extension of the submitted name; with the
\* flag false it is the submitted name; OriginalFileName is the submitted
\* name in both cases.  For UploadFiles and UploadOneFile.
C5_NameAssignment ==
    /\ \A i \in 1..Len(uploadedFiles) : NamedFor(uploadedFiles[i], req.parts[i])
    /\ \A i \in 1..Len(ret.files) : NamedFor(ret.files[i], req.parts[i])
    /\ \A i \in 1..Len(ret.file) : NamedFor(ret.file[i], req.parts[i])

\* a call without the rename argument returned a batch of two renamed files
C5_Witness ==
    /\ pc = "done"
    /\ rename = <<>>
    /\ Len(ret.files) = 2
    /\ ret.files[1].NewFileName # req.parts[1].Filename
    /\ ret.files[2].OriginalFileName = <<"a", ".", "b", ".", "t">>

-----------------------------------------------------------------------------
(* Properties of ReadJSON.                                                 *)

Called == jret # NotCalled

Oversize == Len(jbody) > MaxBytes(t)

\* the units of a body that are not white space
Stripped(body) ==
    LET RECURSIVE Strip(_)
        Strip(k) ==
            IF k = 0 THEN <<>>
            ELSE IF body[k] = " " THEN Strip(k - 1)
                 ELSE Append(Strip(k - 1), body[k])
    IN  Strip(Len(body))

AllSpace(body) == \A i \in 1..Len(body) : body[i] = " "

\* the text is one well-formed object: braces around members only
IsObject(text) ==
    /\ Len(text) >= 2
    /\ text[1] = "{"
    /\ text[Len(text)] = "}"
    /\ \A i \in 2..(Len(text) - 1) : text[i] \in Members

\* the length of the first JSON value of a text without white space, 0 when
\* the text does not start with a well-formed value
FirstValueLen(text) ==
    IF text = <<>> THEN 0
    ELSE IF text[1] = "s" THEN 1
    ELSE LET ends == {i \in 1..Len(text) : IsObject(SubSeq(text, 1, i))}
         IN  IF ends = {} THEN 0 ELSE CHOOSE i \in ends : \A j \in ends : i <= j

\* C6: every body larger than the limit is rejected with SizeExceeded,
\* whatever it contains.
C6_OversizeIsSizeExceeded ==
    (Called /\ Oversize) => jret.kind = "SizeExceeded"

\* the first Decode of the call returned no error
FirstDecodes == FirstDecode(t, jbody).err = NoError

\* nothing but white space follows the first value of the body
OnlySpaceFollows ==
    AllSpace(SubSeq(jbody, FirstDecode(t, jbody).n + 1, Len(jbody)))

OneObjectBody == IsObject(Stripped(jbody))

HasUndeclaredKey == \E i \in 1..Len(jbody) : jbody[i] = "u"

\* ReadJSON with the flag AllowUnknownFields set to allow
ReadJSONWith(allow) == ReadJSON([t EXCEPT !.AllowUnknownFields = allow], jbody)

\* the flag changes the outcome of no body that has only declared keys
FlagIrrelevantWithoutUndeclaredKey ==
    (Called /\ ~HasUndeclaredKey) =>
        /\ ReadJSONWith(TRUE) = ReadJSONWith(FALSE)
        /\ jret = ReadJSONWith(TRUE)

\* C8 (as claimed): one well-formed object with an undeclared key fails with
\* UnknownJSONField naming the key when AllowUnknownFields is false and
\* succeeds when it is true; the flag changes the outcome of no body that
\* has only declared keys.
C8_FieldPolicy ==
    /\ (Called /\ OneObjectBody /\ HasUndeclaredKey) =>
           jret = IF t.AllowUnknownFields
                  THEN NoError
                  ELSE Error("UnknownJSONField", "foooo")
    /\ FlagIrrelevantWithoutUndeclaredKey

\* the members of the object that come before its first undeclared key
BeforeUndeclared ==
    LET text == Stripped(jbody)
        u    == CHOOSE i \in 1..Len(text) :
                    text[i] = "u" /\ \A j \in 1..(i - 1) : text[j] # "u"
    IN  SubSeq(text, 1, u - 1)

\* C8 (amended): for a body no larger than the limit that is one well-formed
\* object with an undeclared key: with AllowUnknownFields false, ReadJSON
\* fails with UnknownJSONField naming the key when no declared key of a
\* wrong type comes before it; with AllowUnknownFields true, it succeeds
\* when no declared key has a wrong type.  The flag changes the outcome of
\* no body that has only declared keys.
C8_FieldPolicyWithinLimit ==
    /\ (Called /\ OneObjectBody /\ HasUndeclaredKey /\ ~Oversize) =>
           IF t.AllowUnknownFields
           THEN ("n" \notin Range(jbody)) => jret = NoError
           ELSE ("n" \notin Range(BeforeUndeclared)) =>
                    jret = Error("UnknownJSONField", "foooo")
    /\ FlagIrrelevantWithoutUndeclaredKey

\* an object with a declared and an undeclared key was rejected for the
\* undeclared key
C8_Witness ==
    /\ Called
    /\ Stripped(jbody) = <<"{", "k", "u", "}">>
    /\ ~t.AllowUnknownFields
    /\ jret = Error("UnknownJSONField", "foooo")

\* the category of a body no larger than the limit
Category(body, allowUnknown) ==
    LET text == Stripped(body)
        n    == FirstValueLen(text)
        bad  == {i \in 2..(n - 1) : text[i] = "n" \/ (text[i] = "u" /\ ~allowUnknown)}
    IN  IF text = <<>> THEN "EmptyBody"
        ELSE IF n = 0 THEN "MalformedJSON"
        ELSE IF n = 1 THEN "JSONTypeMismatch"
        ELSE IF bad # {}
             THEN IF text[CHOOSE i \in bad : \A j \in bad : i <= j] = "n"
                  THEN "JSONTypeMismatch" ELSE "UnknownJSONField"
        ELSE IF Len(text) > n THEN "MultipleJSONValues"
        ELSE "nil"

\* C9: every call returns no error or exactly one error of the taxonomy, the
\* one of the body's category: SizeExceeded for an oversize body, and for
\* the others EmptyBody, MalformedJSON, JSONTypeMismatch, UnknownJSONField,
\* MultipleJSONValues by what the body holds.
C9_ErrorIsTheCategory ==
    Called =>
        jret.kind = IF Oversize THEN "SizeExceeded"
                    ELSE Category(jbody, t.AllowUnknownFields)

-----------------------------------------------------------------------------
(* Properties of WriteJSON.                                                *)

\* the payload of the call serializes
Serializes == wret # "none" /\ Marshal(wcall.data).err = "nil"

-----------------------------------------------------------------------------
(* Properties of RandomString.                                             *)

\* C11: for every n >= 0 and every selection of options, RandomString
\* returns normally a string of exactly n characters, each of them a
\* character of the active alphabet.
C11_LengthAndAlphabet ==
    (rs.state \in {"returned", "panicked"}) =>
        /\ rs.state = "returned"
        /\ Len(rs.s) = rs.n
        /\ \A i \in 1..Len(rs.s) : rs.s[i] \in Range(Source(rs.opts))

\* C12: for every selection of options, every index 0..len(alphabet)-1 is a
\* possible outcome of the index computation of a position.
C12_EveryIndexPossible ==
    (rs.state = "returned" /\ rs.n > 0) =>
        Draws[Len(Source(rs.opts))] = 0..(Len(Source(rs.opts)) - 1)

-----------------------------------------------------------------------------
(* Properties of Slugify.                                                  *)

\* the lower-cased input, its runs outside [a-z0-9] between two kept runes
\* replaced by one hyphen each, the runs at its ends dropped: built from
\* the positions of the kept runes
SlugOf(lower) ==
    LET kept == {i \in 1..Len(lower) : IsSlugChar(lower[i])}
        RECURSIVE Build(_)
        Build(i) ==
            LET before == {k \in kept : k < i}
            IN  IF before = {} THEN <<lower[i]>>
                ELSE LET prev == CHOOSE k \in before : \A j \in before : j <= k
                     IN  IF prev = i - 1
                         THEN Append(Build(prev), lower[i])
                         ELSE Build(prev) \o <<"-", lower[i]>>
    IN  IF kept = {} THEN <<>>
        ELSE Build(CHOOSE k \in kept : \A j \in kept : j <= k)

\* C13: Slugify fails with the empty-input error on the empty string, with
\* the empty-slug error when no character lower-cases into [a-z0-9], and
\* otherwise returns the lower-cased input with every maximal run outside
\* [a-z0-9] replaced by one hyphen and the hyphens at both ends removed: a
\* non-empty string over [a-z0-9-] that neither starts nor ends with a hyphen
\* and has no two adjacent hyphens.
C13_SlugifyContract ==
    (sl.state = "returned") =>
        LET lower == ToLower(sl.s)
        IN  IF sl.s = <<>>
            THEN sl.err = "empty string not permitted"
            ELSE IF \A i \in 1..Len(lower) : ~IsSlugChar(lower[i])
            THEN sl.err = "after removing characters, slug is zero length"
            ELSE /\ sl.err = "nil"
                 /\ sl.slug = SlugOf(lower)
                 /\ Len(sl.slug) > 0
                 /\ \A i \in 1..Len(sl.slug) :
                        IsSlugChar(sl.slug[i]) \/ sl.slug[i] = "-"
                 /\ sl.slug[1] # "-"
                 /\ sl.slug[Len(sl.slug)] # "-"
                 /\ \A i \in 1..(Len(sl.slug) - 1) :
                        ~(sl.slug[i] = "-" /\ sl.slug[i + 1] = "-")

\* an input with an upper-case letter, a run of two characters outside the
\* class in the middle and one at the front has been slugified
C13_Witness ==
    /\ sl.state = "returned"
    /\ sl.s = <<" ", "B", "-", " ">> \/ sl.s = <<"B", " ", "-", "7">>
    /\ sl.err = "nil"
    /\ sl.slug \in {<<"b">>, <<"b", "-", "7">>}

-----------------------------------------------------------------------------
(* Properties of the configuration, the order of the steps, the handles.   *)

\* C14: no operation ever writes a field of the Tools value.
C14_ConfigurationReadOnly == [][t' = t]_vars

\* the operations of the log with the given name
OpsOf(op) == {i \in 1..Len(log) : log[i].op = op}

\* C15: the size admission comes before the directory provisioning, so a
\* call rejected as too big has not created the directory; a destination
\* that cannot be inspected or is not a directory fails the call with the
\* directory error and an empty batch before any file is created; after the
\* first failing part no later part is opened or written.
C15_StepOrder ==
    (pc = "done") =>
        /\ \A i \in OpsOf("parse"), j \in OpsOf("stat") \cup OpsOf("mkdir") : i < j
        /\ (ret.err = "the uploaded file is too big") => OpsOf("mkdir") = {}
        /\ (dir \in {"file", "noaccess"} /\ ret.err # "the uploaded file is too big") =>
                /\ ret.err = "mkdir error"
                /\ ret.files = <<>>
                /\ OpsOf("create") = {}
        /\ \A i \in OpsOf("open") \cup OpsOf("create") : log[i].part <= idx

\* C17: UploadOneFile returns normally, either a descriptor and no error or
\* no descriptor and an error; with a batch of one or more files the
\* descriptor is the first of the batch.
C17_OneFileOutcome ==
    (pc = "done" /\ api = "UploadOneFile") =>
        /\ ~ret.panicked
        /\ (ret.err = "nil") <=> (Len(ret.file) = 1)
        /\ (Len(uploadedFiles) > 0 /\ ret.err = "nil") =>
                ret.file = <<uploadedFiles[1]>>

\* C18: when the call returns, on success and on every error path, every
\* handle it opened is closed: the input handle of each part and the output
\* file of each part.
C18_HandlesReleased ==
    (pc = "done") => (openIn = 0 /\ openOut = 0)

-----------------------------------------------------------------------------
(* Properties of two concurrent uploads under one name.                    *)

\* C16: under every interleaving of the create and copy steps of the two
\* calls, both return, and the file on disk is then exactly the complete
\* content of one of the two uploads.
C16_LastWriteWins ==
    (\A p \in Uploaders : cproc[p].pc = "done") =>
        \E p \in Uploaders : cfile = ContentOf(p)

=============================================================================
